---- MODULE Spec2Model ----
(***************************************************************************)
(* The related-job resolver, the lesson association manager, the           *)
(* completion tracker, the leaderboards and the file store of the backend, *)
(* as state machines over the store's tables and the upload directory.     *)
(*                                                                         *)
(* Text is a sequence of one-character strings, so that strip() and the    *)
(* ILIKE pattern match are computed character by character.  An optional   *)
(* value is <<>> (None) or <<v>>.  A table is a function from the ids of   *)
(* its rows; related_jobs, whose rows are never deleted, is a sequence in  *)
(* insertion order, the order in which an unordered query returns rows.    *)
(***************************************************************************)
EXTENDS Integers, Sequences, FiniteSets, TLC

VARIABLES
    related_jobs,                  \* table related_jobs: Seq of rows, id = index
    lessons,                       \* table lessons: id -> row
    lesson_seq,                    \* the serial behind lessons.id
    lesson_related_job_association,\* table lesson_related_job_relations
    users,                         \* table users: id -> row
    user_seq,                      \* the serial behind users.id
    request,                       \* the request being served, if any
    last,                          \* the last request served and its response
    session,                       \* per concurrent request: its ORM session
    public                         \* the directory public/: file name -> content

vars == <<related_jobs, lessons, lesson_seq, lesson_related_job_association,
          users, user_seq, request, last, session, public>>

----------------------------------------------------------------------------
(* Bounds *)

MaxJobs == 2
MaxLessons == 1
MaxPositions == 2
MaxUsers == 1
MaxCompleted == 2
MaxScore == 4
MaxDebt == 2

----------------------------------------------------------------------------
(* Optional values and text *)

None == <<>>
Some(v) == <<v>>

Lower(c) ==
    IF c = "A" THEN "a" ELSE IF c = "B" THEN "b" ELSE c

RECURSIVE LStrip(_)
LStrip(s) ==
    IF s # <<>> /\ Head(s) = " " THEN LStrip(Tail(s)) ELSE s

RECURSIVE RStrip(_)
RStrip(s) ==
    IF s # <<>> /\ s[Len(s)] = " " THEN RStrip(SubSeq(s, 1, Len(s) - 1)) ELSE s

\* str.strip()
Strip(s) == RStrip(LStrip(s))

\* PostgreSQL's LIKE on lower-cased operands (ILIKE): % is any run of
\* characters, _ any one character, and a backslash, the default escape
\* character, makes the character after it literal.
RECURSIVE Like(_, _)
Like(pat, s) ==
    IF pat = <<>> THEN s = <<>>
    ELSE IF Head(pat) = "%"
        THEN Like(Tail(pat), s) \/ (s # <<>> /\ Like(pat, Tail(s)))
    ELSE IF Head(pat) = "_"
        THEN s # <<>> /\ Like(Tail(pat), Tail(s))
    ELSE IF Head(pat) = "\\" /\ Len(pat) >= 2
        THEN s # <<>> /\ Lower(Head(s)) = Lower(pat[2])
             /\ Like(Tail(Tail(pat)), Tail(s))
    ELSE s # <<>> /\ Lower(Head(s)) = Lower(Head(pat))
         /\ Like(Tail(pat), Tail(s))

\* column.ilike(f"%{text}%")
ILikeContains(text, value) == Like(<<"%">> \o text \o <<"%">>, value)

----------------------------------------------------------------------------
(* Inputs *)

\* position strings of lesson payloads: plain, padded and mixed-case
\* (containing the first), blank
PositionStrings ==
    { <<"a">>, <<" ", "A", "b">>, <<" ">> }

PositionLists ==
    UNION { [1..n -> PositionStrings] : n \in 0..MaxPositions }

\* position strings handed to the resolver itself
ResolverPositions ==
    { <<>>, <<"a">>, <<"A", "b">>, <<"b">>, <<"_">>, <<"\\">> }

Titles == { "t1", "t2" }

JobIds == 1..(MaxJobs + 1)
LessonIds == 1..(MaxLessons + 1)
UserIds == 1..(MaxUsers + 1)

\* A field of an update payload: left out, sent as null, or sent with a value.
Unset == [kind |-> "unset"]
Null == [kind |-> "null"]
Given(v) == [kind |-> "value", v |-> v]

\* update_data.pop(name, None): None unless a value was sent
Popped(f) == IF f.kind = "value" THEN Some(f.v) ELSE None

----------------------------------------------------------------------------
(* crud/related_job.py *)

Range(f) == { f[i] : i \in DOMAIN f }

Min(S) == CHOOSE x \in S : \A y \in S : x <= y

\* (mutant) the query filters on RelatedJob.is_active == True as well
get_related_job_by_position_Active(jobs, position, company) ==
    LET matches ==
            { i \in 1..Len(jobs) :
                /\ jobs[i].is_active
                /\ ILikeContains(position, jobs[i].position)
                /\ (company # None /\ company[1] # <<>>) =>
                      /\ jobs[i].company # None
                      /\ ILikeContains(company[1], jobs[i].company[1]) }
    IN  IF matches = {} THEN None ELSE Some(Min(matches))

\* query.first() of the rows whose position (and company, when one is given)
\* matches: None, or the id of the first matching row
get_related_job_by_position(jobs, position, company) ==
    LET matches ==
            { i \in 1..Len(jobs) :
                /\ ILikeContains(position, jobs[i].position)
                /\ (company # None /\ company[1] # <<>>) =>
                      /\ jobs[i].company # None
                      /\ ILikeContains(company[1], jobs[i].company[1]) }
    IN  IF matches = {} THEN None ELSE Some(Min(matches))

\* RelatedJobCreate(position=position, company=company): the fields that are
\* not given take the schema's default, None
RelatedJobCreate(position, company) ==
    [position |-> position, company |-> company, description |-> None,
     job_type |-> None, experience_level |-> None, industry |-> None,
     skills_required |-> None]

\* (mutant) the row is stored inactive
create_related_job_Inactive(jobs, related_job) ==
    Append(jobs, related_job @@ [id |-> Len(jobs) + 1, is_active |-> FALSE])

\* RelatedJob(**related_job.dict()); db.add; db.commit: the table with the row
\* added (is_active takes the column default)
create_related_job(jobs, related_job) ==
    Append(jobs, related_job @@ [id |-> Len(jobs) + 1, is_active |-> TRUE])

\* the table afterwards and the id of the job returned
find_or_create_related_job(jobs, position, company) ==
    LET existing_job == get_related_job_by_position(jobs, position, company)
    IN  IF existing_job # None
        THEN [jobs |-> jobs, id |-> existing_job[1]]
        ELSE [jobs |-> create_related_job(jobs,
                          RelatedJobCreate(position, company)),
              id |-> Len(jobs) + 1]

----------------------------------------------------------------------------
(* crud/lesson.py: the association manager *)

\* the table afterwards and the ids of the jobs found or created, in order
RECURSIVE find_or_create_related_jobs_from_positions(_, _)
find_or_create_related_jobs_from_positions(jobs, job_positions) ==
    IF job_positions = <<>> THEN [jobs |-> jobs, ids |-> <<>>]
    ELSE LET position == Head(job_positions)
             one == IF position # <<>> /\ Strip(position) # <<>>
                    THEN find_or_create_related_job(jobs, Strip(position), None)
                    ELSE [jobs |-> jobs, id |-> 0]
             rest == find_or_create_related_jobs_from_positions(
                         one.jobs, Tail(job_positions))
         IN  [jobs |-> rest.jobs,
              ids |-> IF one.id = 0 THEN rest.ids ELSE <<one.id>> \o rest.ids]

\* RelatedJob.id.in_(ids): the ids of the rows the query returns
JobsWithIdIn(jobs, ids) == { i \in 1..Len(jobs) : i \in ids }

\* (mutant) the jobs named by related_job_ids are left out
CollectRelatedJobs_PositionsOnly(jobs, related_job_ids, related_job_positions) ==
    LET new_jobs ==
            IF related_job_positions # None /\ related_job_positions[1] # <<>>
            THEN find_or_create_related_jobs_from_positions(
                     jobs, related_job_positions[1])
            ELSE [jobs |-> jobs, ids |-> <<>>]
    IN  [jobs |-> new_jobs.jobs, unique_jobs |-> Range(new_jobs.ids)]

\* The jobs a create or update request names: those of related_job_ids (when
\* the list is not empty), then those of related_job_positions (when the list
\* is not empty), keyed by id.  related_job_ids and related_job_positions are
\* optional values.
CollectRelatedJobs(jobs, related_job_ids, related_job_positions) ==
    LET existing_jobs ==
            IF related_job_ids # None /\ related_job_ids[1] # {}
            THEN JobsWithIdIn(jobs, related_job_ids[1]) ELSE {}
        new_jobs ==
            IF related_job_positions # None /\ related_job_positions[1] # <<>>
            THEN find_or_create_related_jobs_from_positions(
                     jobs, related_job_positions[1])
            ELSE [jobs |-> jobs, ids |-> <<>>]
    IN  [jobs |-> new_jobs.jobs,
         unique_jobs |-> existing_jobs \cup Range(new_jobs.ids)]

\* (mutant) the new jobs are added to the lesson's old ones
SetRelatedJobs_Merge(assoc, lesson_id, job_ids) ==
    assoc \cup { <<lesson_id, j>> : j \in job_ids }

\* db_lesson.related_jobs = value: the association rows of the lesson replaced
SetRelatedJobs(assoc, lesson_id, job_ids) ==
    { r \in assoc : r[1] # lesson_id } \cup { <<lesson_id, j>> : j \in job_ids }

\* (mutant) the association rows are rewritten whether or not the payload
\* carries job data
UpdatedAssociations_Always(assoc, lesson_id, ids, positions, unique_jobs) ==
    { r \in assoc : r[1] # lesson_id }
        \cup { <<lesson_id, j>> : j \in unique_jobs }

\* update_lesson, lines 108-132: the association rows after the update, ids
\* and positions being the popped related_job_ids and related_job_positions
UpdatedAssociations(assoc, lesson_id, ids, positions, unique_jobs) ==
    IF ids # None \/ positions # None
    THEN SetRelatedJobs(assoc, lesson_id, unique_jobs)
    ELSE assoc

get_lesson_by_title(title) ==
    { l \in DOMAIN lessons : lessons[l].title = title }

NoRequest == [op |-> "none"]

\* what every handler of the lesson API leaves alone
LessonFrame ==
    /\ request' = NoRequest
    /\ UNCHANGED <<users, user_seq, session,
                   public>>

\* POST /lessons/.  fault: the final commit fails (the store refuses it or the
\* connection is lost) and the session's open transaction is rolled back.
CreateLesson(title, related_job_ids, related_job_positions, fault) ==
    LET id == lesson_seq + 1
        got == CollectRelatedJobs(related_jobs, Some(related_job_ids),
                                  Some(related_job_positions))
        db_lesson == [title |-> title]
        \* create_related_job commits the session: the flushed lesson row too
        committed_inside == Len(got.jobs) > Len(related_jobs)
    IN  /\ LessonFrame
        /\ IF get_lesson_by_title(title) # {}
           THEN /\ ~fault
                /\ UNCHANGED <<related_jobs, lessons, lesson_seq,
                               lesson_related_job_association>>
                /\ last' = request @@ [status |-> "conflict", lesson_id |-> 0]
           ELSE /\ lesson_seq' = id
                /\ related_jobs' = got.jobs
                /\ lessons' =
                      IF ~fault \/ committed_inside
                      THEN lessons @@ (id :> db_lesson) ELSE lessons
                /\ lesson_related_job_association' =
                      IF ~fault /\ got.unique_jobs # {}
                      THEN SetRelatedJobs(lesson_related_job_association,
                                          id, got.unique_jobs)
                      ELSE lesson_related_job_association
                /\ last' = request @@
                             [status |-> IF fault THEN "error" ELSE "ok",
                              lesson_id |-> id]

\* PUT /lessons/{lesson_id}.  title, related_job_ids and related_job_positions
\* are payload fields.
UpdateLesson(lesson_id, title, related_job_ids, related_job_positions, fault) ==
    LET ids == Popped(related_job_ids)
        positions == Popped(related_job_positions)
        got == CollectRelatedJobs(related_jobs, ids, positions)
        committed_inside == Len(got.jobs) > Len(related_jobs)
        db_lesson == IF title.kind = "value"
                     THEN [lessons[lesson_id] EXCEPT !.title = title.v]
                     ELSE lessons[lesson_id]
    IN  /\ LessonFrame
        /\ UNCHANGED lesson_seq
        /\ IF lesson_id \notin DOMAIN lessons
           THEN /\ ~fault
                /\ UNCHANGED <<related_jobs, lessons,
                               lesson_related_job_association>>
                /\ last' = request @@ [status |-> "not_found"]
           ELSE /\ related_jobs' = got.jobs
                /\ lessons' =
                      IF ~fault \/ committed_inside
                      THEN [lessons EXCEPT ![lesson_id] = db_lesson]
                      ELSE lessons
                /\ lesson_related_job_association' =
                      IF ~fault
                      THEN UpdatedAssociations(lesson_related_job_association,
                               lesson_id, ids, positions, got.unique_jobs)
                      ELSE lesson_related_job_association
                /\ last' = request @@
                             [status |-> IF fault THEN "error" ELSE "ok"]

\* api/lessons.py, lines 156-159: lesson is what crud.delete_lesson returned,
\* a bool, and the route answers 404 only if it is None (which no bool is)
DeleteLessonResponse(lesson) ==
    IF lesson \notin BOOLEAN
    THEN [deleted |-> lesson, status |-> "not_found",
          detail |-> "Lesson not found"]
    ELSE [deleted |-> lesson, status |-> "ok",
          message |-> "Lesson deleted successfully"]

\* (mutant) the association rows of the lesson stay behind
DeleteLesson_KeepRows(lesson_id) ==
    /\ LessonFrame
    /\ UNCHANGED <<related_jobs, lesson_seq, lesson_related_job_association>>
    /\ IF lesson_id \in DOMAIN lessons
       THEN /\ lessons' = [l \in DOMAIN lessons \ {lesson_id} |-> lessons[l]]
            /\ last' = request @@ DeleteLessonResponse(TRUE)
       ELSE /\ UNCHANGED lessons
            /\ last' = request @@ DeleteLessonResponse(FALSE)

\* DELETE /lessons/{lesson_id}: the row and, through the relationship's
\* secondary table, its association rows
DeleteLesson(lesson_id) ==
    /\ LessonFrame
    /\ UNCHANGED <<related_jobs, lesson_seq>>
    /\ IF lesson_id \in DOMAIN lessons
       THEN /\ lessons' = [l \in DOMAIN lessons \ {lesson_id} |-> lessons[l]]
            /\ lesson_related_job_association' =
                  { r \in lesson_related_job_association : r[1] # lesson_id }
            /\ last' = request @@ DeleteLessonResponse(TRUE)
       ELSE /\ UNCHANGED <<lessons, lesson_related_job_association>>
            /\ last' = request @@ DeleteLessonResponse(FALSE)

----------------------------------------------------------------------------
(* The lesson API, one request at a time: a request arrives, its handler   *)
(* runs, the response leaves.                                              *)

NoTable == <<>>

Init ==
    /\ related_jobs = <<>>
    /\ lessons = NoTable
    /\ lesson_seq = 0
    /\ lesson_related_job_association = {}
    /\ users = NoTable
    /\ user_seq = 0
    /\ request = NoRequest
    /\ last = NoRequest
    /\ session = NoTable
    /\ public = NoTable

\* related_job_ids: a list of ints, used through IN and its emptiness only;
\* requests name at most two ids
IdSets == { S \in SUBSET JobIds : Cardinality(S) <= 2 }

Fields(S) == { Unset, Null } \cup { Given(v) : v \in S }

CreateRequests ==
    [op : {"create_lesson"}, title : Titles, related_job_ids : IdSets,
     related_job_positions : PositionLists]

UpdateRequests ==
    [op : {"update_lesson"}, lesson_id : LessonIds,
     title : { Unset } \cup { Given(t) : t \in Titles },
     related_job_ids : Fields(IdSets),
     related_job_positions : Fields(PositionLists)]

DeleteRequests == [op : {"delete_lesson"}, lesson_id : LessonIds]

\* the rows the request can add stay within the model's bounds
WithinBounds(r) ==
    IF r.op = "create_lesson"
    THEN /\ lesson_seq < MaxLessons
         /\ Len(CollectRelatedJobs(related_jobs, Some(r.related_job_ids),
                    Some(r.related_job_positions)).jobs) <= MaxJobs
    ELSE IF r.op = "update_lesson"
    THEN Len(CollectRelatedJobs(related_jobs, Popped(r.related_job_ids),
                 Popped(r.related_job_positions)).jobs) <= MaxJobs
    ELSE TRUE

\* a request arrives when the previous response has left
Accept(requests) ==
    /\ request = NoRequest
    /\ last = NoRequest
    /\ \E r \in requests :
          /\ WithinBounds(r)
          /\ request' = r
    /\ UNCHANGED <<related_jobs, lessons, lesson_seq,
                   lesson_related_job_association, users, user_seq, last,
                   session,
                   public>>

Respond ==
    /\ last # NoRequest
    /\ last' = NoRequest
    /\ UNCHANGED <<related_jobs, lessons, lesson_seq,
                   lesson_related_job_association, users, user_seq, request,
                   session,
                   public>>

AcceptLessonRequest ==
    Accept(CreateRequests \cup UpdateRequests \cup DeleteRequests)

ServeCreateLesson ==
    /\ request.op = "create_lesson"
    /\ \E fault \in BOOLEAN :
          CreateLesson(request.title, request.related_job_ids,
                       request.related_job_positions, fault)

ServeUpdateLesson ==
    /\ request.op = "update_lesson"
    /\ \E fault \in BOOLEAN :
          UpdateLesson(request.lesson_id, request.title,
                       request.related_job_ids,
                       request.related_job_positions, fault)

ServeDeleteLesson ==
    /\ request.op = "delete_lesson"
    /\ DeleteLesson(request.lesson_id)

Next ==
    \/ AcceptLessonRequest
    \/ ServeCreateLesson
    \/ ServeUpdateLesson
    \/ ServeDeleteLesson
    \/ Respond

Spec == Init /\ [][Next]_vars

----------------------------------------------------------------------------
(* The resolver called on its own, one call after the other *)

Companies == { None, Some(<<"b">>) }

FindOrCreateRelatedJob(position, company) ==
    LET r == find_or_create_related_job(related_jobs, position, company)
    IN  /\ Len(r.jobs) <= MaxJobs
        /\ related_jobs' = r.jobs
        /\ last' = [op |-> "find_or_create_related_job",
                    position |-> position, company |-> company, id |-> r.id]
        /\ UNCHANGED <<lessons, lesson_seq, lesson_related_job_association,
                       users, user_seq, request, session,
                       public>>

NextResolver ==
    \E position \in ResolverPositions, company \in Companies :
        FindOrCreateRelatedJob(position, company)

SpecResolver == Init /\ [][NextResolver]_vars

----------------------------------------------------------------------------
(* crud/user.py and the completion tracker of crud/lesson.py *)

DefaultLessonScore == 10

\* what every handler of the user operations leaves alone
UserFrame ==
    /\ request' = NoRequest
    /\ UNCHANGED <<related_jobs, lessons, lesson_seq,
                   lesson_related_job_association, session,
                   public>>

\* the points a lesson awards
AwardedPoints(lesson) ==
    IF lesson.lesson_score # None
    THEN lesson.lesson_score[1] ELSE DefaultLessonScore

\* (mutant) the completion is not counted
Completed_ScoreOnly(user, lesson_score) ==
    [user EXCEPT !.total_lesson_score = @ + lesson_score]

\* db_user.lessons_completed += 1; db_user.total_lesson_score += lesson_score
Completed(user, lesson_score) ==
    [user EXCEPT !.lessons_completed = @ + 1,
                 !.total_lesson_score = @ + lesson_score]

\* (mutant) the query has lost its filter: the first user, whatever the id
get_user_Unfiltered(user_id) ==
    IF DOMAIN users # {} THEN Some(Min(DOMAIN users)) ELSE None

\* db.query(User).filter(User.id == user_id).first()
get_user(user_id) ==
    IF user_id \in DOMAIN users THEN Some(user_id) ELSE None

RegisterUser ==
    LET id == user_seq + 1
    IN  /\ UserFrame
        /\ user_seq' = id
        /\ users' = users @@ (id :> [lessons_completed |-> 0,
                                     total_lesson_score |-> 0,
                                     is_active |-> TRUE])
        /\ last' = request @@ [user_id |-> id]

\* update_data: the fields of the payload that were sent
UpdatedUser(user, payload) ==
    [f \in DOMAIN user |->
        IF payload[f].kind = "value" THEN payload[f].v ELSE user[f]]

UpdateUser(user_id, payload) ==
    /\ UserFrame
    /\ UNCHANGED user_seq
    /\ IF user_id \in DOMAIN users
       THEN /\ users' = [users EXCEPT
                            ![user_id] = UpdatedUser(users[user_id], payload)]
            /\ last' = request @@ [found |-> TRUE]
       ELSE /\ UNCHANGED users
            /\ last' = request @@ [found |-> FALSE]

DeleteUser(user_id) ==
    /\ UserFrame
    /\ UNCHANGED user_seq
    /\ users' = [u \in DOMAIN users \ {user_id} |-> users[u]]
    /\ last' = request @@ [found |-> user_id \in DOMAIN users]

\* crud.user.complete_lesson(db, user_id, lesson_score)
CompleteLesson(user_id, lesson_score) ==
    /\ UserFrame
    /\ UNCHANGED user_seq
    /\ IF user_id \in DOMAIN users
       THEN /\ users' = [users EXCEPT
                            ![user_id] = Completed(users[user_id], lesson_score)]
            /\ last' = request @@ [found |-> TRUE]
       ELSE /\ UNCHANGED users
            /\ last' = request @@ [found |-> FALSE]

ResetUserProgress(user_id) ==
    /\ UserFrame
    /\ UNCHANGED user_seq
    /\ IF user_id \in DOMAIN users
       THEN /\ users' = [users EXCEPT
                            ![user_id].lessons_completed = 0,
                            ![user_id].total_lesson_score = 0]
            /\ last' = request @@ [found |-> TRUE]
       ELSE /\ UNCHANGED users
            /\ last' = request @@ [found |-> FALSE]

\* row.name on a loaded row: the attributes are the columns its class declares
HasAttribute(row, name) == name \in DOMAIN row

\* crud.lesson.complete_lesson_for_user(db, user_id, lesson_id); class Lesson
\* declares no lesson_score, so reading it at line 195 raises AttributeError
CompleteLessonForUser(user_id, lesson_id) ==
    /\ UserFrame
    /\ UNCHANGED user_seq
    /\ IF lesson_id \notin DOMAIN lessons
       THEN /\ UNCHANGED users
            /\ last' = request @@
                         [returned |-> TRUE, success |-> FALSE,
                          message |-> "Lesson not found"]
       ELSE IF get_user(user_id) = None
       THEN /\ UNCHANGED users
            /\ last' = request @@
                         [returned |-> TRUE, success |-> FALSE,
                          message |-> "User not found"]
       ELSE IF ~HasAttribute(lessons[lesson_id], "lesson_score")
       THEN /\ UNCHANGED users
            /\ last' = request @@
                         [returned |-> FALSE, raised |-> "AttributeError"]
       ELSE LET id == get_user(user_id)[1]
                lesson_score == AwardedPoints(lessons[lesson_id])
                user == Completed(users[id], lesson_score)
            IN  /\ users' = [users EXCEPT ![id] = user]
                /\ last' = request @@
                     [returned |-> TRUE, success |-> TRUE,
                      points_earned |-> lesson_score,
                      total_lessons_completed |-> user.lessons_completed,
                      total_score |-> user.total_lesson_score]

----------------------------------------------------------------------------
(* The user operations, one call at a time, over a store that holds a      *)
(* lesson.                                                                 *)

\* the lessons table as the lesson API leaves it after one create_lesson
StoredLessons == << [title |-> "t1"] >>

StoredLessonIds == 1..(Len(StoredLessons) + 1)

InitUsers ==
    /\ related_jobs = <<>>
    /\ lessons = StoredLessons
    /\ lesson_seq = Len(StoredLessons)
    /\ lesson_related_job_association = {}
    /\ users = NoTable
    /\ user_seq = 0
    /\ request = NoRequest
    /\ last = NoRequest
    /\ session = NoTable
    /\ public = NoTable

CounterValues == { -1, 1 }

CompletionScores == { -1, 0, 2 }

UserPayloads ==
    [is_active : { Unset, Given(FALSE) },
     lessons_completed : { Unset } \cup { Given(v) : v \in CounterValues },
     total_lesson_score : { Unset } \cup { Given(v) : v \in CounterValues }]

UserRequests ==
    [op : {"register_user"}]
    \cup [op : {"update_user"}, user_id : UserIds, payload : UserPayloads]
    \cup [op : {"delete_user", "reset_user_progress"}, user_id : UserIds]
    \cup [op : {"complete_lesson"}, user_id : UserIds,
          lesson_score : CompletionScores]
    \cup [op : {"complete_lesson_for_user"}, user_id : UserIds,
          lesson_id : StoredLessonIds]

\* the counters the request can reach stay within the model's bounds
UserWithinBounds(r) ==
    IF r.op = "register_user" THEN user_seq < MaxUsers
    ELSE IF r.op = "complete_lesson" /\ r.user_id \in DOMAIN users
    THEN /\ users[r.user_id].lessons_completed < MaxCompleted
         /\ users[r.user_id].total_lesson_score + r.lesson_score <= MaxScore
         /\ users[r.user_id].total_lesson_score > -MaxDebt
    ELSE TRUE

AcceptUserRequest ==
    /\ request = NoRequest
    /\ last = NoRequest
    /\ \E r \in UserRequests :
          /\ UserWithinBounds(r)
          /\ request' = r
    /\ UNCHANGED <<related_jobs, lessons, lesson_seq,
                   lesson_related_job_association, users, user_seq, last,
                   session,
                   public>>

ServeRegisterUser ==
    /\ request.op = "register_user"
    /\ RegisterUser

ServeUpdateUser ==
    /\ request.op = "update_user"
    /\ UpdateUser(request.user_id, request.payload)

ServeDeleteUser ==
    /\ request.op = "delete_user"
    /\ DeleteUser(request.user_id)

ServeCompleteLesson ==
    /\ request.op = "complete_lesson"
    /\ CompleteLesson(request.user_id, request.lesson_score)

ServeResetUserProgress ==
    /\ request.op = "reset_user_progress"
    /\ ResetUserProgress(request.user_id)

ServeCompleteLessonForUser ==
    /\ request.op = "complete_lesson_for_user"
    /\ CompleteLessonForUser(request.user_id, request.lesson_id)

NextUsers ==
    \/ AcceptUserRequest
    \/ ServeRegisterUser
    \/ ServeUpdateUser
    \/ ServeDeleteUser
    \/ ServeCompleteLesson
    \/ ServeResetUserProgress
    \/ ServeCompleteLessonForUser
    \/ Respond

SpecUsers == InitUsers /\ [][NextUsers]_vars

----------------------------------------------------------------------------
(* Two completion requests at once, each a call of complete_lesson or of   *)
(* complete_lesson_for_user.  Each has its own session: it loads the user  *)
(* row, computes the new counters from the loaded row, and its commit      *)
(* writes them with an UPDATE of that row; the store serialises the two    *)
(* UPDATEs, not the requests (PostgreSQL's default isolation, READ         *)
(* COMMITTED; no SELECT ... FOR UPDATE is issued).                         *)

Requests == { 1, 2 }

\* the lesson_score arguments of the concurrent complete_lesson calls
ConcurrentScores == { 0, 2, 10 }

InitConcurrent ==
    /\ related_jobs = <<>>
    /\ lessons = StoredLessons
    /\ lesson_seq = Len(StoredLessons)
    /\ lesson_related_job_association = {}
    /\ users = [u \in 1..MaxUsers |->
                  [lessons_completed |-> 0, total_lesson_score |-> 0,
                   is_active |-> TRUE]]
    /\ user_seq = MaxUsers
    /\ request = NoRequest
    /\ last = NoRequest
    /\ session = [r \in Requests |-> [pc |-> "idle"]]
    /\ public = NoTable

ConcurrentFrame ==
    UNCHANGED <<related_jobs, lessons, lesson_seq,
                lesson_related_job_association, user_seq, request, last,
                public>>

\* a request that ended without a commit
Ended(op, user_id, outcome) ==
    [pc |-> "done", op |-> op, user_id |-> user_id, committed |-> FALSE,
     outcome |-> outcome]

\* a request that holds a loaded user row and the points to add
Loaded(op, user_id, lesson_score) ==
    [pc |-> "loaded", op |-> op, user_id |-> user_id,
     user |-> users[user_id], lesson_score |-> lesson_score]

\* crud.user.complete_lesson, lines 91-92: the query
LoadUser(r, user_id, lesson_score) ==
    /\ session[r].pc = "idle"
    /\ ConcurrentFrame
    /\ UNCHANGED users
    /\ session' = [session EXCEPT ![r] =
          IF user_id \notin DOMAIN users
          THEN Ended("complete_lesson", user_id, "not found")
          ELSE Loaded("complete_lesson", user_id, lesson_score)]

\* complete_lesson_for_user, lines 185-195: the two queries and the points
LoadForCompletion(r, user_id, lesson_id) ==
    /\ session[r].pc = "idle"
    /\ ConcurrentFrame
    /\ UNCHANGED users
    /\ session' = [session EXCEPT ![r] =
          IF lesson_id \notin DOMAIN lessons \/ user_id \notin DOMAIN users
          THEN Ended("complete_lesson_for_user", user_id, "not found")
          ELSE IF ~HasAttribute(lessons[lesson_id], "lesson_score")
          THEN Ended("complete_lesson_for_user", user_id, "AttributeError")
          ELSE Loaded("complete_lesson_for_user", user_id,
                      AwardedPoints(lessons[lesson_id]))]

\* complete_lesson lines 93-97, complete_lesson_for_user lines 198-211: the
\* counters set from the loaded row, the commit, the reply
CommitCompletion(r) ==
    /\ session[r].pc = "loaded"
    /\ ConcurrentFrame
    /\ LET user == Completed(session[r].user, session[r].lesson_score)
           \* the UPDATE sets the columns whose value differs from the loaded one
           Written(column) ==
               IF user[column] # session[r].user[column]
               THEN user[column] ELSE users[session[r].user_id][column]
       IN  /\ users' = [users EXCEPT
                           ![session[r].user_id].lessons_completed =
                               Written("lessons_completed"),
                           ![session[r].user_id].total_lesson_score =
                               Written("total_lesson_score")]
           /\ session' = [session EXCEPT ![r] =
                 [pc |-> "done", op |-> session[r].op,
                  user_id |-> session[r].user_id, committed |-> TRUE,
                  points_earned |-> session[r].lesson_score,
                  total_lessons_completed |-> user.lessons_completed,
                  total_score |-> user.total_lesson_score]]

NextConcurrent ==
    \/ \E r \in Requests, user_id \in UserIds, lesson_score \in ConcurrentScores :
          LoadUser(r, user_id, lesson_score)
    \/ \E r \in Requests, user_id \in UserIds, lesson_id \in StoredLessonIds :
          LoadForCompletion(r, user_id, lesson_id)
    \/ \E r \in Requests : CommitCompletion(r)

SpecConcurrent == InitConcurrent /\ [][NextConcurrent]_vars

----------------------------------------------------------------------------
(* The leaderboards of crud/user.py, read from a store that holds users    *)
(* with the counters and flags the user operations can leave behind.       *)

BoardUsers == 3

MaxLeaderboardLimit == 50

\* the store the engine talks to: DATABASE_URL (core/config.py) names a
\* PostgreSQL server by default, the migration scripts are written for SQLite
Dialects == { "postgresql", "sqlite" }

RECURSIVE GCD(_, _)
GCD(a, b) == IF b = 0 THEN a ELSE GCD(b, a % b)

\* the quotient n / d of two integers, d > 0, in lowest terms
Quotient(n, d) ==
    LET g == GCD(IF n < 0 THEN -n ELSE n, d)
    IN  << n \div g, d \div g >>

\* (mutant) the filter has lost User.is_active == True
Eligible_Inactive(table) ==
    { u \in DOMAIN table : table[u].lessons_completed > 0 }

\* filter(User.is_active == True, User.lessons_completed > 0)
Eligible(table) ==
    { u \in DOMAIN table :
        table[u].is_active /\ table[u].lessons_completed > 0 }

\* (mutant) order_by(User.total_lesson_score.desc()) alone
RanksAbove_ScoreOnly(table, a, b) ==
    table[a].total_lesson_score > table[b].total_lesson_score

\* order_by(User.total_lesson_score.desc(), User.lessons_completed.desc()):
\* row a is placed before row b
RanksAbove(table, a, b) ==
    \/ table[a].total_lesson_score > table[b].total_lesson_score
    \/ /\ table[a].total_lesson_score = table[b].total_lesson_score
       /\ table[a].lessons_completed > table[b].lessons_completed

\* the orders in which the store may return the rows S: rows the ORDER BY
\* does not tell apart come in any order
RECURSIVE Rankings(_, _)
Rankings(table, S) ==
    IF S = {} THEN { <<>> }
    ELSE UNION { { <<u>> \o r : r \in Rankings(table, S \ {u}) } :
                    u \in { x \in S : \A y \in S : ~RanksAbove(table, y, x) } }

\* .limit(n) on the ordered rows: LIMIT n for n >= 0; a negative n is an
\* error in PostgreSQL and no limit in SQLite
Limit(rows, n, dialect) ==
    IF n >= 0
    THEN [ok |-> TRUE,
          rows |-> SubSeq(rows, 1, IF n < Len(rows) THEN n ELSE Len(rows))]
    ELSE IF dialect = "sqlite"
    THEN [ok |-> TRUE, rows |-> rows]
    ELSE [ok |-> FALSE, rows |-> <<>>]

\* (mutant) total_lesson_score // lessons_completed
average_score_Floor(user) ==
    IF user.lessons_completed > 0
    THEN << user.total_lesson_score \div user.lessons_completed, 1 >>
    ELSE << 0, 1 >>

\* user.total_lesson_score / user.lessons_completed
\*     if user.lessons_completed > 0 else 0
average_score(user) ==
    IF user.lessons_completed > 0
    THEN Quotient(user.total_lesson_score, user.lessons_completed)
    ELSE << 0, 1 >>

\* the entry get_top_performers builds for a row
Performer(table, u) ==
    [id |-> u,
     lessons_completed |-> table[u].lessons_completed,
     total_lesson_score |-> table[u].total_lesson_score,
     average_score |-> average_score(table[u])]

\* get_top_performers(db, limit) when the store returns the rows as ranking
get_top_performers(table, ranking, limit, dialect) ==
    LET rows == Limit(ranking, limit, dialect)
    IN  [ok |-> rows.ok,
         result |-> [i \in 1..Len(rows.rows) |-> Performer(table, rows.rows[i])]]

BoardCompleted == { 0, 3, 7 }

BoardScores == { 1, 2 }

BoardRows ==
    [is_active : BOOLEAN, lessons_completed : BoardCompleted,
     total_lesson_score : BoardScores]

BoardTables == UNION { [1..n -> BoardRows] : n \in 0..BoardUsers }

LeaderboardLimits == { -1, 0, 1, 2, MaxLeaderboardLimit, MaxLeaderboardLimit + 1 }

InitLeaderboard ==
    /\ related_jobs = <<>>
    /\ lessons = NoTable
    /\ lesson_seq = 0
    /\ lesson_related_job_association = {}
    /\ users \in BoardTables
    /\ user_seq = Len(users)
    /\ request = NoRequest
    /\ last = NoRequest
    /\ session = NoTable
    /\ public = NoTable

BoardFrame ==
    UNCHANGED <<related_jobs, lessons, lesson_seq,
                lesson_related_job_association, users, user_seq, request,
                session,
                public>>

\* GET /leaderboard?limit=...
GetLeaderboard(limit) ==
    /\ last = NoRequest
    /\ BoardFrame
    /\ \E dialect \in Dialects, ranking \in Rankings(users, Eligible(users)) :
          LET clamped == IF limit > MaxLeaderboardLimit
                         THEN MaxLeaderboardLimit ELSE limit
              top == get_top_performers(users, ranking, clamped, dialect)
          IN  last' = IF top.ok
                      THEN [op |-> "get_leaderboard", limit |-> limit,
                            status |-> "ok", dialect |-> dialect,
                            top_performers |-> top.result,
                            total_count |-> clamped]
                      ELSE [op |-> "get_leaderboard", limit |-> limit,
                            status |-> "error", dialect |-> dialect]

NextLeaderboard ==
    \/ \E limit \in LeaderboardLimits : GetLeaderboard(limit)
    \/ Respond

SpecLeaderboard == InitLeaderboard /\ [][NextLeaderboard]_vars

----------------------------------------------------------------------------
(* The leaderboard by related job and the best job of a user, read from a  *)
(* store that holds related jobs, two lessons, associations and users.     *)

BoardJobs == 2

JobBoardUsers == 2

MaxLimitPerJob == 20

\* round(x, 1) of x = n / d, d > 0, in tenths: the nearest tenth; when x lies
\* halfway between two tenths the float that holds x decides, either may come
RoundTenths(n, d) ==
    LET q == (10 * n) \div d
        rem == 10 * n - q * d
    IN  IF 2 * rem < d THEN { q }
        ELSE IF 2 * rem > d THEN { q + 1 }
        ELSE { q, q + 1 }

\* db.query(Lesson).join(lesson_related_job_association).filter(
\*     lesson_related_job_association.c.related_job_id == job.id).all()
job_lessons(job_id) ==
    { l \in DOMAIN lessons : <<l, job_id>> \in lesson_related_job_association }

\* max(user.lessons_completed, 1)
CompletedOrOne(user) ==
    IF user.lessons_completed > 1 THEN user.lessons_completed ELSE 1

\* (mutant) the score does not count the job's lessons
job_specific_scores_Flat(user, count) ==
    RoundTenths(user.total_lesson_score, CompletedOrOne(user))

\* round(user.total_lesson_score *
\*       (len(job_lessons) / max(user.lessons_completed, 1)), 1), in tenths
job_specific_scores(user, count) ==
    RoundTenths(user.total_lesson_score * count, CompletedOrOne(user))

\* the roundings of the scores of the users S for a job with count lessons
ScoreChoices(S, count) ==
    LET tenths == UNION { job_specific_scores(users[u], count) : u \in S }
    IN  { f \in [S -> tenths] :
            \A u \in S : f[u] \in job_specific_scores(users[u], count) }

\* the entry the loop builds for a user of the pool
JobPerformer(u, count, score) ==
    [id |-> u,
     lessons_completed |-> users[u].lessons_completed,
     total_lesson_score |-> users[u].total_lesson_score,
     job_specific_score |-> score,
     average_score |-> average_score(users[u]),
     related_lessons_count |-> count]

\* (mutant) performers.sort(key=...) without reverse=True
SortByJobScore_Ascending(performers) ==
    LET First(S) ==
            CHOOSE i \in S : \A j \in S \ {i} :
                \/ performers[i].job_specific_score
                      < performers[j].job_specific_score
                \/ /\ performers[i].job_specific_score
                         = performers[j].job_specific_score
                   /\ i < j
        Order[S \in SUBSET DOMAIN performers] ==
            IF S = {} THEN <<>>
            ELSE <<performers[First(S)]>> \o Order[S \ {First(S)}]
    IN  Order[DOMAIN performers]

\* performers.sort(key=lambda x: x["job_specific_score"], reverse=True): by
\* score, highest first; the sort is stable, equal scores keep their order
SortByJobScore(performers) ==
    LET First(S) ==
            CHOOSE i \in S : \A j \in S \ {i} :
                \/ performers[i].job_specific_score
                      > performers[j].job_specific_score
                \/ /\ performers[i].job_specific_score
                         = performers[j].job_specific_score
                   /\ i < j
        Order[S \in SUBSET DOMAIN performers] ==
            IF S = {} THEN <<>>
            ELSE <<performers[First(S)]>> \o Order[S \ {First(S)}]
    IN  Order[DOMAIN performers]

\* seq[:k]: the first k elements, or all but the last -k when k < 0
Slice(seq, k) ==
    LET n == IF k >= 0 THEN (IF k < Len(seq) THEN k ELSE Len(seq))
             ELSE (IF Len(seq) + k > 0 THEN Len(seq) + k ELSE 0)
    IN  SubSeq(seq, 1, n)

\* the candidate pool of one job: the first 2 * limit_per_job of the ranking
Pool(ranking, limit_per_job, dialect) ==
    Limit(ranking, limit_per_job * 2, dialect).rows

\* the performers one job can be given, lines 186-214: over the orders the
\* store may return the pool in and over the roundings of the scores
JobBoards(count, limit_per_job, dialect) ==
    UNION {
        { Slice(SortByJobScore(
                    [i \in 1..Len(Pool(ranking, limit_per_job, dialect)) |->
                        JobPerformer(Pool(ranking, limit_per_job, dialect)[i],
                            count,
                            scores[Pool(ranking, limit_per_job, dialect)[i]])]),
                limit_per_job) :
            scores \in ScoreChoices(
                Range(Pool(ranking, limit_per_job, dialect)), count) } :
        ranking \in Rankings(users, Eligible(users)) }

\* (mutant) the query has lost RelatedJob.is_active == True
JobsWithLessons_Inactive ==
    { j \in 1..Len(related_jobs) : job_lessons(j) # {} }

\* the jobs the loop does not skip: active, with a lesson
JobsWithLessons ==
    { j \in 1..Len(related_jobs) :
        related_jobs[j].is_active /\ job_lessons(j) # {} }

\* job_info of the by-job leaderboard
JobInfo(j) ==
    [id |-> related_jobs[j].id,
     position |-> related_jobs[j].position,
     company |-> related_jobs[j].company,
     job_type |-> related_jobs[j].job_type,
     experience_level |-> related_jobs[j].experience_level,
     industry |-> related_jobs[j].industry,
     related_lessons_count |-> Cardinality(job_lessons(j))]

\* the stores the leaderboard is read from
BoardLessons == << [title |-> "t1"], [title |-> "t2"] >>

JobBoardRows ==
    { r \in BoardRows :
        r.is_active \/ (r.lessons_completed = 7 /\ r.total_lesson_score = 2) }

JobBoardTables == UNION { [1..n -> JobBoardRows] : n \in 0..JobBoardUsers }

\* the positions of n stored jobs: all the same, or two that alternate
BoardPositions(n) ==
    { [j \in 1..n |-> <<"a">>],
      [j \in 1..n |-> IF j % 2 = 1 THEN <<"a">> ELSE <<"b">>] }

BoardJobTables ==
    UNION { { [j \in 1..n |->
                 RelatedJobCreate(position[j], None)
                     @@ [id |-> j, is_active |-> active[j]]] :
                position \in BoardPositions(n), active \in [1..n -> BOOLEAN] } :
            n \in 0..BoardJobs }

\* every job with none, the first or all of the lessons
BoardAssociations(n) ==
    { { <<l, j>> \in (1..Len(BoardLessons)) \X (1..n) : l <= upto[j] } :
        upto \in [1..n -> 0..Len(BoardLessons)] }

JobBoardLimits == { -1, 0, 1, 2, MaxLimitPerJob + 1 }

InitJobBoard ==
    /\ related_jobs \in BoardJobTables
    /\ lessons = BoardLessons
    /\ lesson_seq = Len(BoardLessons)
    /\ lesson_related_job_association \in BoardAssociations(Len(related_jobs))
    /\ users \in JobBoardTables
    /\ user_seq = Len(users)
    /\ request = NoRequest
    /\ last = NoRequest
    /\ session = NoTable
    /\ public = NoTable

\* GET /leaderboard/by-jobs?limit_per_job=...
GetLeaderboardByJobs(limit_per_job) ==
    /\ last = NoRequest
    /\ BoardFrame
    /\ \E dialect \in Dialects :
          LET clamped == IF limit_per_job > MaxLimitPerJob
                         THEN MaxLimitPerJob ELSE limit_per_job
              call == [op |-> "get_leaderboard_by_jobs",
                       limit_per_job |-> limit_per_job, clamped |-> clamped,
                       dialect |-> dialect]
              boards == UNION { JobBoards(Cardinality(job_lessons(j)),
                                          clamped, dialect) :
                                   j \in JobsWithLessons }
          IN  IF JobsWithLessons # {} /\ clamped < 0 /\ dialect = "postgresql"
              THEN last' = call @@ [status |-> "error"]
              ELSE \E board \in [JobsWithLessons -> boards] :
                      /\ \A j \in JobsWithLessons :
                            board[j] \in JobBoards(Cardinality(job_lessons(j)),
                                                   clamped, dialect)
                      /\ LET shown == { j \in JobsWithLessons : board[j] # <<>> }
                             positions == { related_jobs[j].position : j \in shown }
                         IN  \* result[job.position] = ...: of the jobs that
                             \* share a position, the one the loop visits last
                             \E written \in [positions -> shown] :
                                /\ \A p \in positions :
                                      related_jobs[written[p]].position = p
                                /\ last' = call @@
                                     [status |-> "ok",
                                      result |-> [p \in positions |->
                                          [job_info |-> JobInfo(written[p]),
                                           top_performers |-> board[written[p]]]]]

\* int(x) of x = n / d, d > 0: towards zero
Truncated(n, d) == IF n >= 0 THEN n \div d ELSE -((-n) \div d)

\* the rows of the grouped join, lines 243-253: a job for every job id with an
\* association row, and the number of those rows
RelatedLessonsCount(j) ==
    Cardinality({ r \in lesson_related_job_association : r[2] = j })

\* (mutant) the query has lost order_by(desc('related_lessons_count')): the
\* first group is the one of the lowest job id
BestJobs_Unordered ==
    LET joined == { j \in 1..Len(related_jobs) : RelatedLessonsCount(j) > 0 }
    IN  { j \in joined : \A k \in joined : j <= k }

\* the rows .first() may return, lines 243-253: a group of the join with the
\* greatest count; the order among groups with equal counts is not specified
BestJobs ==
    LET joined == { j \in 1..Len(related_jobs) : RelatedLessonsCount(j) > 0 }
    IN  { j \in joined :
            \A k \in joined : RelatedLessonsCount(k) <= RelatedLessonsCount(j) }

\* (mutant) the check has lost user.lessons_completed == 0
HasNoActivity_UnknownOnly(user_id) ==
    get_user(user_id) = None

\* not user or user.lessons_completed == 0
HasNoActivity(user_id) ==
    \/ get_user(user_id) = None
    \/ users[get_user(user_id)[1]].lessons_completed = 0

\* get_user_best_job_performance(db, user_id) behind GET /me/best-job
GetUserBestJob(user_id) ==
    /\ last = NoRequest
    /\ BoardFrame
    /\ LET call == [op |-> "get_user_best_job_performance", user_id |-> user_id]
       IN  IF HasNoActivity(user_id) \/ BestJobs = {}
           THEN last' = call @@ [status |-> "not_found"]
           ELSE \E j \in BestJobs :
                   /\ j \in 1..Len(related_jobs)
                   /\ LET user == users[user_id]
                          completed == Truncated(user.lessons_completed * 6, 10)
                      IN  \* int(total * 0.7): the product of the floats can
                          \* fall just below a whole number
                          \E total_job_score \in
                                { Truncated(user.total_lesson_score * 7, 10) } \cup
                                (IF user.total_lesson_score > 0
                                    /\ (user.total_lesson_score * 7) % 10 = 0
                                 THEN { Truncated(user.total_lesson_score * 7, 10) - 1 }
                                 ELSE {}) :
                             last' = call @@
                               [status |-> "ok",
                                job_info |-> [id |-> related_jobs[j].id,
                                              position |-> related_jobs[j].position,
                                              company |-> related_jobs[j].company],
                                performance |->
                                  [total_job_score |-> total_job_score,
                                   completed_lessons |->
                                       IF completed > 1 THEN completed ELSE 1,
                                   average_score |-> average_score(user),
                                   related_lessons_available |->
                                       RelatedLessonsCount(j)]]

NextJobBoard ==
    \/ \E limit_per_job \in JobBoardLimits : GetLeaderboardByJobs(limit_per_job)
    \/ \E user_id \in 1..(JobBoardUsers + 1) : GetUserBestJob(user_id)
    \/ Respond

SpecJobBoard == InitJobBoard /\ [][NextJobBoard]_vars

----------------------------------------------------------------------------
(* The lesson catalogue: lessons created, changed and deleted through the  *)
(* lesson API and related jobs soft-deleted by crud.related_job, one       *)
(* request at a time.  A payload is the JSON object of the request: a      *)
(* field of it is left out or sent, and the schema decides what the        *)
(* handler sees of it.                                                     *)

CatalogueLessons == 2

\* the fields of a payload that class LessonCreate declares; pydantic drops
\* the others (no model_config / Config.extra is set)
LessonCreateFields == { "title", "related_job_ids", "related_job_positions" }

\* the fields of a payload that class LessonUpdate declares
LessonUpdateFields == { "title", "related_job_ids", "related_job_positions" }

\* LessonCreate(**payload)
LessonCreate(payload) ==
    [f \in DOMAIN payload \cap LessonCreateFields |-> payload[f]]

\* LessonUpdate(**payload)
LessonUpdate(payload) ==
    [f \in DOMAIN payload \cap LessonUpdateFields |-> payload[f]]

\* lesson.dict(exclude={'related_job_ids', 'related_job_positions'})
LessonData(lesson) ==
    [f \in DOMAIN lesson \ { "related_job_ids", "related_job_positions" } |->
        lesson[f]]

\* lesson_data.get('lesson_score') is not None and lesson_data['lesson_score'] < 0
ScoreIsNegative(lesson_data) ==
    /\ "lesson_score" \in DOMAIN lesson_data
    /\ lesson_data.lesson_score.kind = "value"
    /\ lesson_data.lesson_score.v < 0

\* POST /lessons/ with a JSON payload
PostLesson(payload, fault) ==
    LET lesson == LessonCreate(payload)
    IN  IF get_lesson_by_title(lesson.title) = {}
           /\ ScoreIsNegative(LessonData(lesson))
        THEN /\ ~fault
             /\ LessonFrame
             /\ UNCHANGED <<related_jobs, lessons, lesson_seq,
                            lesson_related_job_association>>
             /\ last' = request @@ [status |-> "error",
                                    raised |-> "ValueError", lesson_id |-> 0]
        ELSE CreateLesson(lesson.title, lesson.related_job_ids,
                          lesson.related_job_positions, fault)

\* PUT /lessons/{lesson_id} with a JSON payload
PutLesson(lesson_id, payload, fault) ==
    LET lesson_update == LessonUpdate(payload)
    IN  UpdateLesson(lesson_id, lesson_update.title,
                     lesson_update.related_job_ids,
                     lesson_update.related_job_positions, fault)

\* crud.related_job.delete_related_job(db, related_job_id): a soft delete
DeleteRelatedJob(related_job_id) ==
    /\ LessonFrame
    /\ UNCHANGED <<lessons, lesson_seq, lesson_related_job_association>>
    /\ IF related_job_id \in 1..Len(related_jobs)
       THEN /\ related_jobs' =
                  [related_jobs EXCEPT ![related_job_id].is_active = FALSE]
            /\ last' = request @@ [deleted |-> TRUE]
       ELSE /\ UNCHANGED related_jobs
            /\ last' = request @@ [deleted |-> FALSE]

\* lesson_score as payloads send it: left out, negative, positive
PayloadScores == { Unset, Given(-1), Given(3) }

CataloguePositionLists == { <<>>, << <<"a">> >>, << <<" ", "A", "b">> >> }

CatalogueCreateRequests ==
    [op : {"create_lesson"}, title : Titles, lesson_score : PayloadScores,
     related_job_ids : { {}, {1} },
     related_job_positions : CataloguePositionLists]

CatalogueUpdateRequests ==
    [op : {"update_lesson"}, lesson_id : 1..(CatalogueLessons + 1),
     title : { Unset } \cup { Given(t) : t \in Titles },
     lesson_score : { Unset, Given(-1) },
     related_job_ids : { Unset },
     related_job_positions :
         { Unset } \cup { Given(l) : l \in CataloguePositionLists }]

CatalogueDeleteRequests ==
    [op : {"delete_lesson"}, lesson_id : 1..(CatalogueLessons + 1)]
    \cup [op : {"delete_related_job"}, related_job_id : JobIds]

\* the rows the request can add stay within the model's bounds
CatalogueWithinBounds(r) ==
    IF r.op = "create_lesson"
    THEN /\ lesson_seq < CatalogueLessons
         /\ Len(CollectRelatedJobs(related_jobs, Some(r.related_job_ids),
                    Some(r.related_job_positions)).jobs) <= MaxJobs
    ELSE IF r.op = "update_lesson"
    THEN Len(CollectRelatedJobs(related_jobs, Popped(r.related_job_ids),
                 Popped(r.related_job_positions)).jobs) <= MaxJobs
    ELSE TRUE

AcceptCatalogueRequest ==
    /\ request = NoRequest
    /\ last = NoRequest
    /\ \E r \in CatalogueCreateRequests \cup CatalogueUpdateRequests
                  \cup CatalogueDeleteRequests :
          /\ CatalogueWithinBounds(r)
          /\ request' = r
    /\ UNCHANGED <<related_jobs, lessons, lesson_seq,
                   lesson_related_job_association, users, user_seq, last,
                   session,
                   public>>

ServePostLesson ==
    /\ request.op = "create_lesson"
    /\ \E fault \in BOOLEAN : PostLesson(request, fault)

ServePutLesson ==
    /\ request.op = "update_lesson"
    /\ \E fault \in BOOLEAN : PutLesson(request.lesson_id, request, fault)

ServeDeleteRelatedJob ==
    /\ request.op = "delete_related_job"
    /\ DeleteRelatedJob(request.related_job_id)

NextCatalogue ==
    \/ AcceptCatalogueRequest
    \/ ServePostLesson
    \/ ServePutLesson
    \/ ServeDeleteLesson
    \/ ServeDeleteRelatedJob
    \/ Respond

SpecCatalogue == Init /\ [][NextCatalogue]_vars

----------------------------------------------------------------------------
(* api/upload.py: files stored in the directory public/.  The server runs  *)
(* as one or more worker processes that share the directory.  The handler  *)
(* of an upload is a coroutine without an await, so within a worker it     *)
(* runs from its first line to its last before another request of that     *)
(* worker is served; the handlers of different workers interleave, and     *)
(* the steps of one are the look-ups of get_unique_filename and the        *)
(* open(file_path, "wb") that creates or truncates the file.               *)

MaxUploads == 2
MaxWorkers == 2
MaxFiles == 3

Uploads == 1..MaxUploads
Workers == 1..MaxWorkers

Digits == <<"0", "1", "2", "3", "4", "5", "6", "7", "8", "9">>

\* str(n) of a natural number
RECURSIVE Str(_)
Str(n) ==
    IF n < 10 THEN <<Digits[n + 1]>>
    ELSE Str(n \div 10) \o <<Digits[(n % 10) + 1]>>

\* the place of the last "." of a name that neither starts nor ends with it,
\* 0 when there is none: where pathlib splits stem and suffix
SuffixStart(name) ==
    LET dots == { i \in 1..Len(name) : name[i] = "." }
        i == CHOOSE d \in dots : \A e \in dots : e <= d
    IN  IF dots # {} /\ 1 < i /\ i < Len(name) THEN i ELSE 0

\* Path(name).suffix
Suffix(name) ==
    IF SuffixStart(name) = 0 THEN <<>>
    ELSE SubSeq(name, SuffixStart(name), Len(name))

\* Path(name).stem
Stem(name) ==
    IF SuffixStart(name) = 0 THEN name
    ELSE SubSeq(name, 1, SuffixStart(name) - 1)

\* the loop of get_unique_filename, lines 23-29, from a counter on
RECURSIVE NumberedFilename(_, _, _, _)
NumberedFilename(directory, name_part, extension, counter) ==
    LET new_filename == name_part \o <<"_">> \o Str(counter) \o extension
    IN  IF new_filename \notin directory THEN new_filename
        ELSE NumberedFilename(directory, name_part, extension, counter + 1)

\* get_unique_filename(directory, filename), directory being the set of the
\* names that exist in it
get_unique_filename(directory, filename) ==
    IF filename \notin directory THEN filename
    ELSE NumberedFilename(directory, Stem(filename), Suffix(filename), 1)

\* lines 126-130: the desired name takes the extension of the uploaded file
\* when it has none of its own
WithExtension(filename, file_filename) ==
    IF Suffix(filename) = <<>> /\ Suffix(file_filename) # <<>>
    THEN filename \o Suffix(file_filename) ELSE filename

\* the filename query parameter of an upload
DesiredNames == { <<"a", ".", "p">>, <<"a">>, <<"a", "_", "1", ".", "p">> }

\* file.filename of an upload
UploadedNames == { <<"x", ".", "p">>, <<"x">> }

InitUpload ==
    /\ related_jobs = <<>>
    /\ lessons = NoTable
    /\ lesson_seq = 0
    /\ lesson_related_job_association = {}
    /\ users = NoTable
    /\ user_seq = 0
    /\ request = NoRequest
    /\ last = NoRequest
    /\ session = [u \in Uploads |-> [pc |-> "idle"]]
    /\ public = NoTable

UploadFrame ==
    UNCHANGED <<related_jobs, lessons, lesson_seq,
                lesson_related_job_association, users, user_seq, request,
                last>>

\* upload_lesson_file, lines 121-136, in worker w: the name is chosen
ChooseFilename(u, w, file_filename, filename) ==
    /\ session[u].pc = "idle"
    /\ \A v \in Uploads :
          session[v].pc = "named" => session[v].worker # w
    /\ Cardinality(DOMAIN public) < MaxFiles
    /\ UploadFrame
    /\ UNCHANGED public
    /\ LET desired == WithExtension(filename, file_filename)
       IN  session' = [session EXCEPT ![u] =
              [pc |-> "named", worker |-> w, filename |-> desired,
               unique_filename |->
                   get_unique_filename(DOMAIN public, desired)]]

\* upload_lesson_file, lines 138-148: open(file_path, "wb") creates the file
\* or truncates the one that is there, and the bytes of the upload are
\* written to it
SaveFile(u) ==
    /\ session[u].pc = "named"
    /\ UploadFrame
    /\ public' = (session[u].unique_filename :> [upload |-> u])
                      @@ public
    /\ session' = [session EXCEPT ![u] =
          [pc |-> "done", worker |-> session[u].worker,
           filename |-> session[u].unique_filename]]

\* the response has left
UploadDone(u) ==
    /\ session[u].pc = "done"
    /\ UploadFrame
    /\ UNCHANGED public
    /\ session' = [session EXCEPT ![u] = [pc |-> "idle"]]

NextUpload ==
    \/ \E u \in Uploads, w \in Workers, file_filename \in UploadedNames,
          filename \in DesiredNames :
          ChooseFilename(u, w, file_filename, filename)
    \/ \E u \in Uploads : SaveFile(u)
    \/ \E u \in Uploads : UploadDone(u)

SpecUpload == InitUpload /\ [][NextUpload]_vars

----------------------------------------------------------------------------
(* Two calls of find_or_create_related_job at once, each in a request of   *)
(* its own (the lesson routes are plain functions, which the server runs   *)
(* in threads) with a session of its own.  The look-up reads the rows      *)
(* that are committed; create_related_job inserts and commits.  Nothing    *)
(* locks the table and no unique index covers position.                    *)

\* the positions of the concurrent calls: plain text, so that a call finds
\* the row a finished call has inserted
ConcurrentPositions == { <<"a">>, <<"b">>, <<"A", "b">> }

\* the stores the calls start from
ConcurrentStores ==
    { <<>> } \cup { create_related_job(<<>>, RelatedJobCreate(position, None)) :
                      position \in { <<"a">>, <<"b">> } }

InitConcurrentResolver ==
    /\ related_jobs \in ConcurrentStores
    /\ lessons = NoTable
    /\ lesson_seq = 0
    /\ lesson_related_job_association = {}
    /\ users = NoTable
    /\ user_seq = 0
    /\ request = NoRequest
    /\ last = NoRequest
    /\ session = [r \in Requests |-> [pc |-> "idle"]]
    /\ public = NoTable

ResolverFrame ==
    UNCHANGED <<lessons, lesson_seq, lesson_related_job_association, users,
                user_seq, request, last, public>>

\* find_or_create_related_job, lines 75-77: the look-up, and the return when
\* it found a row
LookUpRelatedJob(r, position) ==
    /\ session[r].pc = "idle"
    /\ ResolverFrame
    /\ UNCHANGED related_jobs
    /\ LET existing_job ==
               get_related_job_by_position(related_jobs, position, None)
       IN  session' = [session EXCEPT ![r] =
              IF existing_job # None
              THEN [pc |-> "done", position |-> position,
                    id |-> existing_job[1], created |-> FALSE]
              ELSE [pc |-> "creating", position |-> position]]

\* find_or_create_related_job, lines 80-84: the row is inserted and committed
InsertRelatedJob(r) ==
    /\ session[r].pc = "creating"
    /\ ResolverFrame
    /\ related_jobs' = create_related_job(related_jobs,
                           RelatedJobCreate(session[r].position, None))
    /\ session' = [session EXCEPT ![r] =
          [pc |-> "done", position |-> session[r].position,
           id |-> Len(related_jobs) + 1, created |-> TRUE]]

NextConcurrentResolver ==
    \/ \E r \in Requests, position \in ConcurrentPositions :
          LookUpRelatedJob(r, position)
    \/ \E r \in Requests : InsertRelatedJob(r)

SpecConcurrentResolver ==
    InitConcurrentResolver /\ [][NextConcurrentResolver]_vars

----------------------------------------------------------------------------
(* Vocabulary of the properties *)

\* the related jobs of a lesson in an association table
JobsOf(assoc, lesson_id) == { r[2] : r \in { x \in assoc : x[1] = lesson_id } }

\* text occurs in value, letter case ignored
ContainsIgnoreCase(text, value) ==
    \E i \in 1..(Len(value) - Len(text) + 1) :
        \A k \in 1..Len(text) : Lower(value[i + k - 1]) = Lower(text[k])

NonBlank(position) == \E i \in 1..Len(position) : position[i] # " "

\* the first row of a related-job table whose position contains the text
FirstContaining(jobs, text) ==
    Min({ j \in 1..Len(jobs) : ContainsIgnoreCase(text, jobs[j].position) })

\* a step in which the handler of a lesson update answers with success
UpdateSucceeds ==
    /\ request.op = "update_lesson"
    /\ last'.op = "update_lesson"
    /\ last'.status = "ok"

----------------------------------------------------------------------------
(* Properties of the lesson association manager *)

\* C1: a successful lesson update whose payload omits both related_job_ids
\* and related_job_positions leaves the association table as it was; one
\* whose payload carries both, empty, leaves the lesson with no association
\* (so the outcomes differ for a lesson that had one).
C1_OmitKeepsEmptyClears ==
    [][UpdateSucceeds =>
        LET l == request.lesson_id
            ids == request.related_job_ids
            positions == request.related_job_positions
        IN  /\ (ids = Unset /\ positions = Unset) =>
                  lesson_related_job_association'
                      = lesson_related_job_association
            /\ (ids = Given({}) /\ positions = Given(<<>>)) =>
                  JobsOf(lesson_related_job_association', l) = {}
            /\ (ids = Given({}) /\ positions = Given(<<>>)) =>
                  \A k \in DOMAIN lessons \ {l} :
                      JobsOf(lesson_related_job_association', k)
                          = JobsOf(lesson_related_job_association, k)
    ]_vars

\* C1 witness: an update that omitted both fields was served for a lesson
\* that has an association.
C1_Witness ==
    /\ last.op = "update_lesson"
    /\ last.status = "ok"
    /\ last.related_job_ids = Unset
    /\ last.related_job_positions = Unset
    /\ JobsOf(lesson_related_job_association, last.lesson_id) # {}

\* C2: after a successful lesson update whose job data names at least one
\* job, the lesson's related jobs are exactly the rows that existed with an
\* id in related_job_ids together with, for each non-blank position, the
\* first row whose position contains the trimmed string; unknown ids add
\* nothing and what the lesson was associated with before is dropped.
C2_UpdateReplacesWithUnion ==
    [][UpdateSucceeds =>
        LET l == request.lesson_id
            ids == IF request.related_job_ids.kind = "value"
                   THEN request.related_job_ids.v ELSE {}
            positions == IF request.related_job_positions.kind = "value"
                         THEN request.related_job_positions.v ELSE <<>>
            by_id == { j \in 1..Len(related_jobs) : j \in ids }
            by_position ==
                { FirstContaining(related_jobs', Strip(positions[i])) :
                    i \in { k \in 1..Len(positions) : NonBlank(positions[k]) } }
        IN  (by_id \cup by_position # {}) =>
                JobsOf(lesson_related_job_association', l)
                    = by_id \cup by_position
    ]_vars

\* C2 witness: a served update named a known and an unknown id and a
\* non-blank position, and the lesson has related jobs.
C2_Witness ==
    /\ last.op = "update_lesson"
    /\ last.status = "ok"
    /\ last.related_job_ids.kind = "value"
    /\ \E j \in last.related_job_ids.v : j > Len(related_jobs)
    /\ \E j \in last.related_job_ids.v : j <= Len(related_jobs)
    /\ last.related_job_positions.kind = "value"
    /\ \E i \in 1..Len(last.related_job_positions.v) :
          NonBlank(last.related_job_positions.v[i])
    /\ Cardinality(JobsOf(lesson_related_job_association, last.lesson_id)) = 2

\* the positions a pending create or update request carries
RequestedPositions ==
    IF request.op = "create_lesson" THEN request.related_job_positions
    ELSE IF request.related_job_positions.kind = "value"
    THEN request.related_job_positions.v ELSE <<>>

\* the pending request names a position that no stored related job contains,
\* so that serving it creates a related job
ResolvesIntoNewJob ==
    \E i \in 1..Len(RequestedPositions) :
        /\ NonBlank(RequestedPositions[i])
        /\ \A j \in 1..Len(related_jobs) :
              ~ContainsIgnoreCase(Strip(RequestedPositions[i]),
                                  related_jobs[j].position)

\* C4: a lesson create or update that fails after it has resolved a
\* position into a new related job leaves the store as it was: no related
\* job, no lesson, no lesson field and no association is added or changed.
C4_FailedRequestLeavesNothing ==
    [][(/\ request.op \in {"create_lesson", "update_lesson"}
        /\ ResolvesIntoNewJob
        /\ last'.op = request.op
        /\ last'.status = "error") =>
            /\ related_jobs' = related_jobs
            /\ lessons' = lessons
            /\ lesson_related_job_association'
                  = lesson_related_job_association
    ]_vars

----------------------------------------------------------------------------
(* Properties of the resolver *)

\* C3: when find_or_create_related_job is called again with the position
\* (and company) of the call before it, it returns the id that call returned
\* and adds no row.
C3_ResolveTwiceSameJob ==
    [][(/\ last.op = "find_or_create_related_job"
        /\ last'.op = "find_or_create_related_job"
        /\ last'.position = last.position
        /\ last'.company = last.company) =>
            /\ last'.id = last.id
            /\ related_jobs' = related_jobs
    ]_vars

\* a step in which find_or_create_related_job is called
Resolved ==
    last'.op = "find_or_create_related_job"

\* the stored row holds the position of the call as a case-insensitive
\* substring, and the company likewise when the call supplies one
HoldsCallTexts(job, position, company) ==
    /\ ContainsIgnoreCase(position, job.position)
    /\ (company # None /\ company[1] # <<>>) =>
          /\ job.company # None
          /\ ContainsIgnoreCase(company[1], job.company[1])

\* C11: find_or_create_related_job returns a stored row, and adds none,
\* whenever some stored row's position contains the given position as a
\* case-insensitive substring (and its company the given company, when one
\* is given); it adds a row only when no stored row does.
C11_ReturnsContainingRow ==
    [][Resolved =>
        LET containing ==
                { i \in 1..Len(related_jobs) :
                    HoldsCallTexts(related_jobs[i], last'.position,
                                   last'.company) }
        IN  /\ containing # {} =>
                  /\ related_jobs' = related_jobs
                  /\ last'.id \in 1..Len(related_jobs)
            /\ related_jobs' # related_jobs => containing = {}
    ]_vars

\* C12: find_or_create_related_job leaves the table as it is or appends one
\* row to it; the appended row is active, holds the given position and the
\* given company (or none), has every other optional field unset, and is the
\* row returned; no stored row is removed or changed.
C12_AtMostOneInsert ==
    [][Resolved =>
        \/ related_jobs' = related_jobs
        \/ /\ Len(related_jobs') = Len(related_jobs) + 1
           /\ SubSeq(related_jobs', 1, Len(related_jobs)) = related_jobs
           /\ LET row == related_jobs'[Len(related_jobs')]
              IN  /\ row.is_active
                  /\ row.position = last'.position
                  /\ row.company = last'.company
                  /\ row.description = None
                  /\ row.job_type = None
                  /\ row.experience_level = None
                  /\ row.industry = None
                  /\ row.skills_required = None
                  /\ row.id = last'.id
                  /\ \A i \in 1..Len(related_jobs) :
                        related_jobs[i].id # row.id
    ]_vars

\* C12 witness: a call with a company has added a second row, which holds
\* that company, while a row with a similar position was stored.
C12_Witness ==
    /\ last.op = "find_or_create_related_job"
    /\ last.id = 2
    /\ Len(related_jobs) = 2
    /\ last.company # None
    /\ related_jobs[2].company = last.company
    /\ ContainsIgnoreCase(last.position, related_jobs[1].position)

----------------------------------------------------------------------------
(* Properties of the completion tracker and of the user counters *)

\* C5: once two concurrent completion requests for one user have both
\* committed, the user's lessons_completed has grown by 2 and the
\* total_lesson_score by the sum of the two awards (the counters start at 0).
C5_NoLostCompletion ==
    \A u \in DOMAIN users :
        (\A r \in Requests :
            /\ session[r].pc = "done"
            /\ session[r].committed
            /\ session[r].user_id = u) =>
        /\ users[u].lessons_completed = 2
        /\ users[u].total_lesson_score =
              session[1].points_earned + session[2].points_earned

\* a step in which complete_lesson_for_user is served
CompletionServed ==
    /\ request.op = "complete_lesson_for_user"
    /\ last'.op = "complete_lesson_for_user"

\* a step in which a completion succeeds: complete_lesson finds its user, or
\* complete_lesson_for_user returns success
CompletionSucceeds ==
    \/ /\ request.op = "complete_lesson"
       /\ last'.op = "complete_lesson"
       /\ last'.found
    \/ /\ CompletionServed
       /\ last'.returned
       /\ last'.success

\* the points the served completion awards
PointsOfCompletion ==
    IF request.op = "complete_lesson"
    THEN request.lesson_score ELSE last'.points_earned

C7_AwardIsScoreOrDefault ==
    [][(CompletionServed
            /\ request.lesson_id \in DOMAIN lessons
            /\ request.user_id \in DOMAIN users) =>
        LET u == request.user_id
            lesson == lessons[request.lesson_id]
            award == IF "lesson_score" \in DOMAIN lesson
                        /\ lesson.lesson_score # None
                     THEN lesson.lesson_score[1] ELSE 10
        IN  /\ last'.returned
            /\ last'.success
            /\ last'.points_earned = award
            /\ users'[u].total_lesson_score
                  = users[u].total_lesson_score + award
    ]_vars

\* C8: complete_lesson_for_user for a lesson or a user that does not exist
\* answers with a failure that names what was not found, and changes no row
\* of users.
C8_NotFoundChangesNothing ==
    [][(CompletionServed
            /\ (request.lesson_id \notin DOMAIN lessons
                    \/ request.user_id \notin DOMAIN users)) =>
        /\ last'.returned
        /\ ~last'.success
        /\ last'.message \in {"Lesson not found", "User not found"}
        /\ users' = users
    ]_vars

\* C8 witness: a completion for an unknown user was refused while the store
\* holds a user.
C8_Witness ==
    /\ last.op = "complete_lesson_for_user"
    /\ last.returned
    /\ ~last.success
    /\ last.message = "User not found"
    /\ DOMAIN users # {}

\* C9: a user's total_lesson_score changes only in a completion, which does
\* not lower it, or in a reset, which sets it to 0.
C9_ScoreOnlyByCompletionOrReset ==
    [][\A u \in DOMAIN users \cap DOMAIN users' :
        users'[u].total_lesson_score # users[u].total_lesson_score =>
            \/ /\ last'.op \in {"complete_lesson", "complete_lesson_for_user"}
               /\ users'[u].total_lesson_score > users[u].total_lesson_score
            \/ /\ last'.op = "reset_user_progress"
               /\ users'[u].total_lesson_score = 0
    ]_vars

\* C10: every user has lessons_completed >= 0 and total_lesson_score >= 0.
C10_CountersNonNegative ==
    \A u \in DOMAIN users :
        /\ users[u].lessons_completed >= 0
        /\ users[u].total_lesson_score >= 0

----------------------------------------------------------------------------
(* Properties of the global leaderboard *)

\* a leaderboard has been returned and is still on display
LeaderboardReturned ==
    /\ last.op = "get_leaderboard"
    /\ last.status = "ok"

\* the ids of the returned entries
ReturnedIds == { last.top_performers[i].id : i \in 1..Len(last.top_performers) }

\* C13: every entry of the global leaderboard is a stored user that is active
\* and has lessons_completed > 0, shown with its stored counters.
C13_OnlyActiveWithCompletions ==
    LeaderboardReturned =>
        \A i \in 1..Len(last.top_performers) :
            LET e == last.top_performers[i]
            IN  /\ e.id \in DOMAIN users
                /\ users[e.id].is_active
                /\ users[e.id].lessons_completed > 0
                /\ e.lessons_completed = users[e.id].lessons_completed
                /\ e.total_lesson_score = users[e.id].total_lesson_score

\* C13 witness: a leaderboard with an entry was returned while the store
\* holds an inactive user and a user without completions whose scores are at
\* least every score on the board.
C13_Witness ==
    /\ LeaderboardReturned
    /\ Len(last.top_performers) >= 1
    /\ \E u, v \in DOMAIN users :
          /\ ~users[u].is_active /\ users[u].lessons_completed > 0
          /\ users[v].is_active /\ users[v].lessons_completed = 0
          /\ \A i \in 1..Len(last.top_performers) :
                /\ users[u].total_lesson_score
                      >= last.top_performers[i].total_lesson_score
                /\ users[v].total_lesson_score
                      >= last.top_performers[i].total_lesson_score

\* the pair (total_lesson_score, lessons_completed) of a is strictly greater
\* than that of b, compared lexicographically
PairGreater(a, b) ==
    \/ a.total_lesson_score > b.total_lesson_score
    \/ /\ a.total_lesson_score = b.total_lesson_score
       /\ a.lessons_completed > b.lessons_completed

\* C14: the entries of the global leaderboard are distinct users in
\* non-increasing order of (total_lesson_score, lessons_completed), and no
\* active user with completions that is left out has a strictly greater pair
\* than a user on the board.
C14_RankedPrefix ==
    LeaderboardReturned =>
        /\ \A i, j \in 1..Len(last.top_performers) :
              i < j =>
                /\ last.top_performers[i].id # last.top_performers[j].id
                /\ ~PairGreater(last.top_performers[j], last.top_performers[i])
        /\ \A u \in DOMAIN users \ ReturnedIds :
              (users[u].is_active /\ users[u].lessons_completed > 0) =>
                \A i \in 1..Len(last.top_performers) :
                    ~PairGreater(users[u], last.top_performers[i])

\* C14 witness: two of three ranked users were returned, the two tied on the
\* score and told apart by their completions, the third left out.
C14_Witness ==
    /\ LeaderboardReturned
    /\ last.limit = 2
    /\ Len(last.top_performers) = 2
    /\ last.top_performers[1].total_lesson_score
          = last.top_performers[2].total_lesson_score
    /\ last.top_performers[1].lessons_completed
          > last.top_performers[2].lessons_completed
    /\ \E u \in DOMAIN users \ ReturnedIds :
          users[u].is_active /\ users[u].lessons_completed > 0

\* C15: whatever limit the caller supplies, the global leaderboard holds at
\* most that many entries (none for a limit below 0) and never more than 50.
C15_AtMostLimitEntries ==
    LeaderboardReturned =>
        /\ Len(last.top_performers) <= (IF last.limit < 0 THEN 0 ELSE last.limit)
        /\ Len(last.top_performers) <= 50

\* C16: the average_score of every leaderboard entry is the user's
\* total_lesson_score divided by the user's lessons_completed, which is not 0:
\* as a fraction n/d, n * lessons_completed = total_lesson_score * d.
C16_AverageIsQuotient ==
    LeaderboardReturned =>
        \A i \in 1..Len(last.top_performers) :
            LET e == last.top_performers[i]
            IN  /\ users[e.id].lessons_completed # 0
                /\ e.average_score[2] > 0
                /\ e.average_score[1] * users[e.id].lessons_completed
                      = users[e.id].total_lesson_score * e.average_score[2]

\* C16 witness: an entry with 2 points over 3 completions shows the average
\* two thirds.
C16_Witness ==
    /\ LeaderboardReturned
    /\ \E i \in 1..Len(last.top_performers) :
          /\ last.top_performers[i].total_lesson_score = 2
          /\ last.top_performers[i].lessons_completed = 3
          /\ last.top_performers[i].average_score = << 2, 3 >>

----------------------------------------------------------------------------
(* Properties of the leaderboard by related job and of the best job *)

\* a by-job leaderboard has been returned and is still on display
JobBoardReturned ==
    /\ last.op = "get_leaderboard_by_jobs"
    /\ last.status = "ok"

\* the lessons a stored job is associated with
LessonsOfJob(job_id) ==
    { r[1] : r \in { x \in lesson_related_job_association : x[2] = job_id } }

\* the divisor of the estimate: max(lessons_completed, 1)
Divisor(e) == IF e.lessons_completed > 1 THEN e.lessons_completed ELSE 1

\* C17 as stated: the score reported for a user under a job is exactly
\* total_lesson_score * (associated lessons / max(lessons_completed, 1)); in
\* tenths, score * max(lessons_completed, 1) = 10 * total * lessons.
C17_ScoreIsExactEstimate ==
    JobBoardReturned =>
        \A p \in DOMAIN last.result :
            \A i \in 1..Len(last.result[p].top_performers) :
                LET e == last.result[p].top_performers[i]
                    count == Cardinality(LessonsOfJob(last.result[p].job_info.id))
                IN  e.job_specific_score * Divisor(users[e.id])
                        = 10 * users[e.id].total_lesson_score * count

\* C17: the score reported for a user under a job is
\* total_lesson_score * (associated lessons / max(lessons_completed, 1))
\* rounded to one decimal place: it differs from the estimate by at most half
\* a tenth.
C17_ScoreIsRoundedEstimate ==
    JobBoardReturned =>
        \A p \in DOMAIN last.result :
            \A i \in 1..Len(last.result[p].top_performers) :
                LET e == last.result[p].top_performers[i]
                    count == Cardinality(LessonsOfJob(last.result[p].job_info.id))
                    d == Divisor(users[e.id])
                    off == 10 * users[e.id].total_lesson_score * count
                               - e.job_specific_score * d
                IN  /\ e.related_lessons_count = count
                    /\ 2 * off <= d
                    /\ -2 * off <= d

\* C17 witness: a user with 2 points over 3 completions is shown under a job
\* with 2 lessons with the score 1.3.
C17_Witness ==
    /\ JobBoardReturned
    /\ \E p \in DOMAIN last.result :
          \E i \in 1..Len(last.result[p].top_performers) :
              LET e == last.result[p].top_performers[i]
              IN  /\ e.total_lesson_score = 2
                  /\ e.lessons_completed = 3
                  /\ e.related_lessons_count = 2
                  /\ e.job_specific_score = 13

\* the estimate of a is strictly greater than that of b (for one job)
EstimateGreater(a, b) ==
    a.total_lesson_score * Divisor(b) > b.total_lesson_score * Divisor(a)

\* the candidate pools the global ranking allows for a per-job limit: 2 * limit
\* ranked users (all of them when there are fewer), none left out that has a
\* strictly greater pair than one taken
CandidatePools(limit_per_job) ==
    LET ranked == { u \in DOMAIN users :
                      users[u].is_active /\ users[u].lessons_completed > 0 }
        size == IF 2 * limit_per_job < Cardinality(ranked)
                THEN 2 * limit_per_job ELSE Cardinality(ranked)
    IN  { S \in SUBSET ranked :
            /\ Cardinality(S) = size
            /\ \A u \in ranked \ S, v \in S : ~PairGreater(users[u], users[v]) }

\* C18: for every job of the by-job leaderboard asked for with a limit that
\* is not negative, top_performers has at most limit_per_job entries, in
\* non-increasing order of the per-job estimate, all taken from the first
\* 2 * limit_per_job users of the global ranking, and no user of that pool
\* that is left out has a greater estimate than one shown.
C18_TopOfCandidatePool ==
    (JobBoardReturned /\ last.clamped >= 0) =>
        \A p \in DOMAIN last.result :
            LET top == last.result[p].top_performers
                shown == { top[i].id : i \in 1..Len(top) }
            IN  /\ Len(top) <= last.clamped
                /\ \A i, j \in 1..Len(top) :
                      i < j => ~EstimateGreater(top[j], top[i])
                /\ \E S \in CandidatePools(last.clamped) :
                      /\ shown \subseteq S
                      /\ Cardinality(shown) =
                            (IF last.clamped < Cardinality(S)
                             THEN last.clamped ELSE Cardinality(S))
                      /\ \A u \in S \ shown, v \in shown :
                            ~EstimateGreater(users[u], users[v])

\* C19: every job of the by-job leaderboard is a stored job that is active,
\* has an associated lesson and has a performer, entered under its position.
C19_OnlyActiveJobsWithLessons ==
    JobBoardReturned =>
        \A p \in DOMAIN last.result :
            LET id == last.result[p].job_info.id
            IN  /\ id \in 1..Len(related_jobs)
                /\ related_jobs[id].is_active
                /\ related_jobs[id].position = p
                /\ LessonsOfJob(id) \cap DOMAIN lessons # {}
                /\ Len(last.result[p].top_performers) >= 1

\* C19 witness: a leaderboard with one job was returned while the store
\* holds a soft-deleted job that has lessons.
C19_Witness ==
    /\ JobBoardReturned
    /\ Cardinality(DOMAIN last.result) = 1
    /\ \E j \in 1..Len(related_jobs) :
          /\ ~related_jobs[j].is_active
          /\ LessonsOfJob(j) # {}
          /\ related_jobs[j].position \notin DOMAIN last.result

\* C20: get_user_best_job_performance answers not-found whenever the user is
\* not stored or has lessons_completed = 0, whatever jobs and associations
\* the store holds.
C20_NoActivityNotFound ==
    (/\ last.op = "get_user_best_job_performance"
     /\ \/ last.user_id \notin DOMAIN users
        \/ users[last.user_id].lessons_completed = 0) =>
        last.status = "not_found"

\* C20 witness: not-found was answered for a stored user without completions
\* while a job with associated lessons is stored.
C20_Witness ==
    /\ last.op = "get_user_best_job_performance"
    /\ last.status = "not_found"
    /\ last.user_id \in DOMAIN users
    /\ users[last.user_id].lessons_completed = 0
    /\ \E j \in 1..Len(related_jobs) : LessonsOfJob(j) # {}

\* C21: for a user with a completion the job get_user_best_job_performance
\* returns is a stored job whose number of association rows is the greatest
\* of all stored jobs, whatever the user's counters are.
C21_BestJobHasMostLessons ==
    (last.op = "get_user_best_job_performance" /\ last.status = "ok") =>
        /\ last.job_info.id \in 1..Len(related_jobs)
        /\ \A k \in 1..Len(related_jobs) :
              Cardinality(LessonsOfJob(k))
                  <= Cardinality(LessonsOfJob(last.job_info.id))
        /\ last.performance.related_lessons_available
              = Cardinality(LessonsOfJob(last.job_info.id))

\* C21 witness: the second job of a store was returned, with 2 lessons
\* against the 1 lesson of the first.
C21_Witness ==
    /\ last.op = "get_user_best_job_performance"
    /\ last.status = "ok"
    /\ last.job_info.id = 2
    /\ Cardinality(LessonsOfJob(1)) = 1
    /\ Cardinality(LessonsOfJob(2)) = 2

----------------------------------------------------------------------------
(* Properties of the lesson catalogue *)

\* a step in which the handler of the pending request answers
Served(op) ==
    /\ request.op = op
    /\ last'.op = op

\* C22: after every step no two stored lessons have the same title, and a
\* create request whose title belongs to a stored lesson is answered with a
\* conflict and inserts no lesson.
C22_TitlesUnique ==
    [][/\ \A a, b \in DOMAIN lessons' :
             a # b => lessons'[a].title # lessons'[b].title
       /\ (Served("create_lesson")
           /\ \E l \in DOMAIN lessons : lessons[l].title = request.title) =>
              /\ last'.status = "conflict"
              /\ lessons' = lessons
    ]_vars

\* C23: after every step each stored lesson has lesson_score unset or not
\* negative, and a create request with a negative lesson_score is answered
\* with a validation error and leaves no lesson row behind.
C23_NegativeScoreRejected ==
    [][/\ \A l \in DOMAIN lessons' :
             HasAttribute(lessons'[l], "lesson_score") =>
                 \/ lessons'[l].lesson_score = None
                 \/ lessons'[l].lesson_score[1] >= 0
       /\ (Served("create_lesson")
           /\ request.lesson_score.kind = "value"
           /\ request.lesson_score.v < 0) =>
              /\ last'.status \in { "error", "conflict" }
              /\ lessons' = lessons
    ]_vars

\* C24: a delete request for a lesson id that is not stored is answered with
\* not-found, never with the success message, and leaves the store as it
\* was.
C24_DeleteUnknownLessonNotFound ==
    [][(Served("delete_lesson") /\ request.lesson_id \notin DOMAIN lessons) =>
          /\ last'.status = "not_found"
          /\ lessons' = lessons
          /\ lesson_related_job_association' = lesson_related_job_association
          /\ related_jobs' = related_jobs
    ]_vars

----------------------------------------------------------------------------
(* Properties of the file store *)

\* the names stem_N.ext, N from 1 to k
NumberedNames(name, k) ==
    { Stem(name) \o <<"_">> \o Str(n) \o Suffix(name) : n \in 1..k }

\* C25: storing an upload never overwrites a stored file, whatever the
\* interleaving of the uploads: the name chosen is the desired name when it
\* is free and otherwise stem_N.ext for the smallest N >= 1 that is free, and
\* the file is created under a name that no stored file has.
C25_UploadNeverOverwrites ==
    [][\A u \in Uploads :
          /\ (session[u].pc = "idle" /\ session'[u].pc = "named") =>
                LET desired == session'[u].filename
                    chosen == session'[u].unique_filename
                IN  IF desired \notin DOMAIN public THEN chosen = desired
                    ELSE \E n \in 1..(Cardinality(DOMAIN public) + 1) :
                            /\ chosen = Stem(desired) \o <<"_">> \o Str(n)
                                            \o Suffix(desired)
                            /\ chosen \notin DOMAIN public
                            /\ NumberedNames(desired, n - 1)
                                   \subseteq DOMAIN public
          /\ (session[u].pc = "named" /\ session'[u].pc = "done") =>
                /\ session[u].unique_filename \notin DOMAIN public
                /\ \A name \in DOMAIN public : public'[name] = public[name]
    ]_vars

----------------------------------------------------------------------------
(* Further properties of the leaderboard by related job and of the resolver *)

\* C26: whenever the by-job leaderboard is asked for with a limit of at
\* least 1 and some user is active with a completion (the candidate pool is
\* not empty), every active job with an associated lesson has an entry of
\* its own, one whose job_info.id is the id of the job, also when two such
\* jobs have the same position.
C26_EveryJobHasOwnEntry ==
    (/\ JobBoardReturned
     /\ last.clamped >= 1
     /\ \E u \in DOMAIN users :
           users[u].is_active /\ users[u].lessons_completed > 0) =>
        \A j \in 1..Len(related_jobs) :
            (related_jobs[j].is_active /\ LessonsOfJob(j) # {}) =>
                \E p \in DOMAIN last.result : last.result[p].job_info.id = j

\* C27: when two calls of the resolver for the same position P have ended,
\* whatever their interleaving, and no row that was stored before them
\* matches P, exactly one row with position P is stored and both calls
\* returned its id.
C27_ConcurrentResolveOneRow ==
    \A a, b \in Requests :
        (/\ a # b
         /\ session[a].pc = "done"
         /\ session[b].pc = "done"
         /\ session[a].position = session[b].position
         /\ session[a].created \/ session[b].created) =>
            /\ session[a].id = session[b].id
            /\ Cardinality({ j \in 1..Len(related_jobs) :
                   related_jobs[j].position = session[a].position }) = 1

\* a step in which a lesson create or update is answered with success
SavesLesson ==
    /\ request.op \in { "create_lesson", "update_lesson" }
    /\ last'.op = request.op
    /\ last'.status = "ok"

\* the non-blank positions of the pending request, trimmed
TrimmedPositions ==
    { Strip(RequestedPositions[i]) :
        i \in { k \in 1..Len(RequestedPositions) :
                  NonBlank(RequestedPositions[k]) } }

\* C28: the look-up of the resolver does not consider is_active: when a
\* lesson create or update succeeds and a position it names is contained in
\* the position of a stored job, active or soft-deleted, the lesson is
\* associated with the first such job, and when every position it names is
\* so contained no job is inserted.
C28_ResolvesToInactiveJob ==
    [][SavesLesson =>
        LET l == IF request.op = "create_lesson"
                 THEN last'.lesson_id ELSE request.lesson_id
            found == { P \in TrimmedPositions :
                         \E j \in 1..Len(related_jobs) :
                             ContainsIgnoreCase(P, related_jobs[j].position) }
        IN  /\ \A P \in found :
                  FirstContaining(related_jobs, P)
                      \in JobsOf(lesson_related_job_association', l)
            /\ found = TrimmedPositions => related_jobs' = related_jobs
    ]_vars

\* C28 witness: a lesson was created with a position, no job was inserted
\* for it, and the lesson is associated with a soft-deleted job.
C28_Witness ==
    /\ last.op = "create_lesson"
    /\ last.status = "ok"
    /\ last.related_job_ids = {}
    /\ last.related_job_positions # <<>>
    /\ Len(related_jobs) = 1
    /\ ~related_jobs[1].is_active
    /\ JobsOf(lesson_related_job_association, last.lesson_id) = {1}

----------------------------------------------------------------------------
(* Further properties of the lesson association manager *)

\* the field of an update payload was sent with a value
Sent(f) == f.kind = "value"

\* C29: in a successful lesson update job data counts as supplied as soon as
\* related_job_ids or related_job_positions is sent with a value: a payload
\* with only related_job_ids = [], or only related_job_positions empty or
\* all blank, leaves the lesson without association; a payload with only
\* one of them naming jobs leaves the lesson with exactly those jobs; and a
\* payload in which neither is sent with a value changes no association.
C29_EitherFieldSupplies ==
    [][UpdateSucceeds =>
        LET l == request.lesson_id
            ids == request.related_job_ids
            positions == request.related_job_positions
            now == JobsOf(lesson_related_job_association', l)
            named == { i \in 1..Len(positions.v) : NonBlank(positions.v[i]) }
        IN  /\ (ids = Given({}) /\ ~Sent(positions)) => now = {}
            /\ (~Sent(ids) /\ Sent(positions) /\ named = {}) => now = {}
            /\ (Sent(ids) /\ ids.v # {} /\ ~Sent(positions)) =>
                  now = { j \in 1..Len(related_jobs) : j \in ids.v }
            /\ (~Sent(ids) /\ Sent(positions) /\ named # {}) =>
                  now = { FirstContaining(related_jobs', Strip(positions.v[i])) :
                            i \in named }
            /\ (~Sent(ids) /\ ~Sent(positions)) =>
                  lesson_related_job_association'
                      = lesson_related_job_association
    ]_vars

\* C29 witness: an update that sent only related_job_ids, naming job 1, was
\* served for a lesson, and the lesson is associated with job 1 alone while
\* a second job is stored.
C29_Witness ==
    /\ last.op = "update_lesson"
    /\ last.status = "ok"
    /\ last.related_job_ids = Given({1})
    /\ last.related_job_positions = Unset
    /\ Len(related_jobs) = 2
    /\ JobsOf(lesson_related_job_association, last.lesson_id) = {1}

\* C30: under lesson create, update and delete and the soft delete of
\* related jobs, after every step each association row names a stored lesson
\* and a stored related job; deleting a lesson removes the association rows
\* of the lesson, and deleting a related job only sets its is_active to
\* false, the row and the association rows staying.
C30_AssociationsReferToStoredRows ==
    [][/\ \A r \in lesson_related_job_association' :
             /\ r[1] \in DOMAIN lessons'
             /\ r[2] \in 1..Len(related_jobs')
       /\ Served("delete_lesson") =>
             /\ request.lesson_id \notin DOMAIN lessons'
             /\ JobsOf(lesson_related_job_association', request.lesson_id) = {}
       /\ Served("delete_related_job") =>
             /\ Len(related_jobs') = Len(related_jobs)
             /\ \A j \in 1..Len(related_jobs) :
                   related_jobs'[j] =
                       IF j = request.related_job_id
                       THEN [related_jobs[j] EXCEPT !.is_active = FALSE]
                       ELSE related_jobs[j]
             /\ lesson_related_job_association'
                   = lesson_related_job_association
             /\ lessons' = lessons
    ]_vars

\* C30 witness: a related job that a lesson is associated with was
\* soft-deleted: the row is stored, inactive, and the association row is
\* still there.
C30_Witness ==
    /\ last.op = "delete_related_job"
    /\ last.deleted
    /\ ~related_jobs[last.related_job_id].is_active
    /\ \E r \in lesson_related_job_association :
          r[2] = last.related_job_id /\ r[1] \in DOMAIN lessons

====
